---------------------------- MODULE Spec2Model ----------------------------
(***************************************************************************)
(* Model of src/src/event-timer.c: a periodic timer built on a Linux       *)
(* timerfd and dispatched by the event machine (reactor).                  *)
(*                                                                         *)
(* One Event_timer storage is modelled.  The program is single threaded:   *)
(* the API functions are called either from code outside the timer's       *)
(* handler (pc = "app") or from the timer's own callback while the handler *)
(* is draining expirations (pc = "incb").                                  *)
(***************************************************************************)
EXTENDS Integers, Sequences, FiniteSets, TLC

(***************************************************************************)
(* Bounds of the model.                                                    *)
(***************************************************************************)
NumFds == 1
MaxTicks == 2

(***************************************************************************)
(* Values.                                                                 *)
(***************************************************************************)
NULL == "NULL"
INVALID_FD == -1
EPOLLIN == 1
FirstFd == 3
Fds == FirstFd .. (FirstFd + NumFds - 1)

EM_SUCCESS == "EM_SUCCESS"
EM_ERROR_NULL == "EM_ERROR_NULL"
EM_ERROR_TIMER_NULL == "EM_ERROR_TIMER_NULL"
EM_ERROR_CALLBACK_NULL == "EM_ERROR_CALLBACK_NULL"
EM_ERROR_BADFD == "EM_ERROR_BADFD"
EM_ERROR_DESCRIPTOR_NULL == "EM_ERROR_DESCRIPTOR_NULL"
EM_ERROR_TIMERFD_SETTIME == "EM_ERROR_TIMERFD_SETTIME"
EM_ERROR_CLOSE == "EM_ERROR_CLOSE"
\* statuses of the reactor's own failures (epoll_ctl rejected the change)
EM_ERROR_REGISTER == "EM_ERROR_REGISTER"
EM_ERROR_UNREGISTER == "EM_ERROR_UNREGISTER"
\* not a status: the call did not return (assertion failure)
NO_RETURN == "NO_RETURN"
NOT_CALLED == "NOT_CALLED"

\* inputs of the API calls
Reactors == {NULL, "EM"}
TimerPtrs == {NULL, "T"}
Callbacks == {NULL, "cb1"}
UserData == {NULL, "d1"}
Msecs == {-1, 0, 50, 1000}

\* C integer division and remainder truncate toward zero
CDiv(a, b) == IF a >= 0 THEN a \div b ELSE -((-a) \div b)
CMod(a, b) == a - b * CDiv(a, b)

(***************************************************************************)
(* Event_timer storage.  event_descriptor is embedded: fd, events, ed_data *)
(* and handler are its fields.                                             *)
(***************************************************************************)
ZeroTimer ==
    [event_machine |-> NULL, data |-> NULL, callback |-> NULL,
     fd |-> 0, events |-> 0, ed_data |-> NULL, handler |-> NULL]

\* contents of storage that was never passed to a successful create:
\* zero-initialised, or leftovers of whatever used the memory before
GarbageTimer ==
    [event_machine |-> "EM", data |-> "d1", callback |-> "cb1",
     fd |-> FirstFd, events |-> EPOLLIN, ed_data |-> "T",
     handler |-> "internal_timeout_handler"]

\* memset() without the two assignments of -1
shredMissesFd(t) ==
    [event_machine |-> NULL, data |-> NULL, callback |-> NULL,
     fd |-> 0, events |-> 0, ed_data |-> NULL, handler |-> NULL]

\* the two assignments of -1 without memset()
shredMissesMemset(t) == [t EXCEPT !.fd = INVALID_FD]

shred(t) ==
    [event_machine |-> NULL, data |-> NULL, callback |-> NULL,
     fd |-> INVALID_FD, events |-> 0, ed_data |-> NULL, handler |-> NULL]

(***************************************************************************)
(* Kernel: the file descriptor table restricted to timerfds.               *)
(* (sec, nsec) is the armed setting (the code always sets it_value and     *)
(* it_interval to the same timespec); ticks is the expiration count a      *)
(* read would return.                                                      *)
(***************************************************************************)
ClosedFd == [open |-> FALSE, sec |-> 0, nsec |-> 0, ticks |-> 0]
FreshFd == [open |-> TRUE, sec |-> 0, nsec |-> 0, ticks |-> 0]

IsOpen(k, fd) == fd \in Fds /\ k[fd].open

\* timerfd_create(CLOCK_MONOTONIC, TFD_CLOEXEC | TFD_NONBLOCK): the lowest
\* free descriptor, disarmed; or -1 with errno EMFILE.
timerfd_create(k) ==
    {[fd |-> f, k |-> [k EXCEPT ![f] = FreshFd], errno |-> "keep"] :
        f \in {g \in Fds : ~k[g].open /\ \A h \in Fds : h < g => k[h].open}}
    \cup {[fd |-> INVALID_FD, k |-> k, errno |-> "EMFILE"]}

\* close(fd) on Linux: EBADF for a descriptor that is not open; an open
\* descriptor is released whether close reports success or an error.
close(k, fd) ==
    IF IsOpen(k, fd)
    THEN {[ret |-> 0, k |-> [k EXCEPT ![fd] = ClosedFd], errno |-> "keep"],
          [ret |-> -1, k |-> [k EXCEPT ![fd] = ClosedFd], errno |-> "EIO"]}
    ELSE {[ret |-> -1, k |-> k, errno |-> "EBADF"]}

\* timerfd_settime(fd, 0, {it_interval = it_value = (sec, nsec)}, NULL):
\* replaces the setting and clears the pending expiration count.
timerfd_settime(k, fd, sec, nsec) ==
    IF ~IsOpen(k, fd)
    THEN [ret |-> -1, k |-> k, errno |-> "EBADF"]
    ELSE IF sec < 0 \/ nsec < 0 \/ nsec > 999999999
    THEN [ret |-> -1, k |-> k, errno |-> "EINVAL"]
    ELSE [ret |-> 0, errno |-> "keep",
          k |-> [k EXCEPT ![fd] = [open |-> TRUE, sec |-> sec,
                                   nsec |-> nsec, ticks |-> 0]]]

Armed(k, fd) == IsOpen(k, fd) /\ (k[fd].sec # 0 \/ k[fd].nsec # 0)

\* armed period in nanoseconds
PeriodNs(k, fd) == k[fd].sec * 1000000000 + k[fd].nsec

\* read(fd, &number_of_timeouts, 8) on a non-blocking timerfd
read(k, fd) ==
    IF ~IsOpen(k, fd)
    THEN [readed |-> -1, n |-> 0, k |-> k, errno |-> "EBADF"]
    ELSE IF k[fd].ticks = 0
    THEN [readed |-> -1, n |-> 0, k |-> k, errno |-> "EAGAIN"]
    ELSE [readed |-> 8, n |-> k[fd].ticks, errno |-> "keep",
          k |-> [k EXCEPT ![fd].ticks = 0]]

SetErrno(old, new) == IF new = "keep" THEN old ELSE new

(***************************************************************************)
(* Reactor (event machine): its table of registered descriptors, by fd.    *)
(***************************************************************************)
\* event_machine_add(em, &ed)
event_machine_add(em, ed_fd, reg) ==
    IF em = NULL
    THEN {[ret |-> EM_ERROR_NULL, reg |-> reg, errno |-> "keep"]}
    ELSE {[ret |-> EM_SUCCESS, reg |-> reg \cup {ed_fd}, errno |-> "keep"],
          [ret |-> EM_ERROR_REGISTER, reg |-> reg, errno |-> "EPERM"]}

\* event_machine_delete(em, fd, NULL)
event_machine_delete(em, fd, reg) ==
    IF em = NULL
    THEN {[ret |-> EM_ERROR_NULL, reg |-> reg, errno |-> "keep"]}
    ELSE IF fd < 0
    THEN {[ret |-> EM_ERROR_BADFD, reg |-> reg, errno |-> "keep"]}
    ELSE IF fd \notin reg
    THEN {[ret |-> EM_ERROR_UNREGISTER, reg |-> reg, errno |-> "EPERM"]}
    ELSE {[ret |-> EM_SUCCESS, reg |-> reg \ {fd}, errno |-> "keep"],
          [ret |-> EM_ERROR_UNREGISTER, reg |-> reg, errno |-> "EPERM"]}

if_em_failure(ret) == ret # EM_SUCCESS

(***************************************************************************)
(* State.                                                                  *)
(***************************************************************************)
VARIABLES
    timer,              \* the Event_timer storage
    kfd,                \* kernel descriptor table
    registered,         \* fds in the reactor's table
    errno,
    ndebug,             \* build: TRUE when assert() is compiled out
    pc,                 \* "app", "drain", "incb", "aborted", "crashed"
    number_of_timeouts, \* the handler's local: iterations left
    life,               \* history: "uninit", "created", "destroyed",
                        \*          "failed", "wiped"
    started,            \* history: a start succeeded since the last create
    stopped,            \* history: a stop succeeded and no start since
    created_data,       \* history: user data given to the last create
    last,               \* history: the API call made by the last step
    readn,              \* history: count read by the running dispatch
    invoked             \* history: callback invocations of that dispatch

vars == <<timer, kfd, registered, errno, ndebug, pc, number_of_timeouts,
          life, started, stopped, created_data, last, readn, invoked>>

\* op: the function called; args: its arguments; ret: the status returned;
\* em, emErrno: status and errno of the reactor call it made; closed: the
\* descriptors it passed to close; closeRet: what close returned; prev: the
\* setting of the timerfd when start or stop was called
NoCall ==
    [op |-> "none", args |-> <<>>, ret |-> NOT_CALLED, em |-> NOT_CALLED,
     emErrno |-> "0", closed |-> <<>>, closeRet |-> 0, prev |-> <<>>]

OpenFds(k) == {f \in Fds : k[f].open}

Init ==
    /\ timer \in {ZeroTimer, GarbageTimer}
    /\ kfd = [f \in Fds |-> ClosedFd]
    /\ registered = {}
    /\ errno = "0"
    /\ ndebug \in BOOLEAN
    /\ pc = "app"
    /\ number_of_timeouts = 0
    /\ life = "uninit"
    /\ started = FALSE
    /\ stopped = FALSE
    /\ created_data = NULL
    /\ last = NoCall
    /\ readn = 0
    /\ invoked = 0

\* API functions are called from outside the handler or from the callback
Callable == pc \in {"app", "incb"}

\* the record of a call that starts now
Call(op, args) == [NoCall EXCEPT !.op = op, !.args = args]

(***************************************************************************)
(* event_timer_create                                                      *)
(***************************************************************************)
\* the checks in another order
create_null_check_callback_first(em, tp, cb) ==
    IF cb = NULL THEN EM_ERROR_CALLBACK_NULL
    ELSE IF tp = NULL THEN EM_ERROR_TIMER_NULL
    ELSE IF em = NULL THEN EM_ERROR_NULL
    ELSE EM_SUCCESS

\* the argument checks of create, in the order of the code
create_null_check(em, tp, cb) ==
    IF em = NULL THEN EM_ERROR_NULL
    ELSE IF tp = NULL THEN EM_ERROR_TIMER_NULL
    ELSE IF cb = NULL THEN EM_ERROR_CALLBACK_NULL
    ELSE EM_SUCCESS

\* errno stays as the cleanup close left it
restore_errno_missing(saved, after_close) == after_close

\* int saved_errno = errno; ... close(fd); ... errno = saved_errno;
restore_errno(saved, after_close) == saved

\* assert(ret != EM_ERROR_NULL); assert(ret != EM_ERROR_DESCRIPTOR_NULL);
AssertFails(ret) ==
    ~ndebug /\ ret \in {EM_ERROR_NULL, EM_ERROR_DESCRIPTOR_NULL}

ApiFrame ==
    UNCHANGED <<ndebug, number_of_timeouts, readn, invoked>>

event_timer_create(em, tp, cb, d) ==
    /\ Callable
    /\ ApiFrame
    /\ LET c == Call("create", <<em, tp, cb, d>>)
           chk == create_null_check(em, tp, cb)
       IN
       IF chk # EM_SUCCESS
       THEN /\ last' = [c EXCEPT !.ret = chk]
            /\ UNCHANGED <<timer, kfd, registered, errno, pc, life, started,
                           stopped, created_data>>
       ELSE
       \* the caller passes storage that does not hold a created timer
       /\ life # "created"
       /\ LET t1 == [timer EXCEPT !.event_machine = em, !.data = d,
                                  !.callback = cb]
          IN
          \E r \in timerfd_create(kfd) :
            IF r.fd < 0
            THEN /\ timer' = t1
                 /\ errno' = SetErrno(errno, r.errno)
                 /\ last' = [c EXCEPT !.ret = EM_ERROR_BADFD]
                 /\ UNCHANGED <<kfd, registered, pc, life, started, stopped,
                                created_data>>
            ELSE
            LET t2 == [t1 EXCEPT !.fd = r.fd, !.events = EPOLLIN,
                                 !.ed_data = tp,
                                 !.handler = "internal_timeout_handler"]
            IN
            \E a \in event_machine_add(em, t2.fd, registered) :
              LET e1 == SetErrno(errno, a.errno)
                  c1 == [c EXCEPT !.em = a.ret, !.emErrno = e1]
              IN
              IF ~if_em_failure(a.ret)
              THEN /\ timer' = t2
                   /\ kfd' = r.k
                   /\ registered' = a.reg
                   /\ errno' = e1
                   /\ life' = "created"
                   /\ started' = FALSE
                   /\ stopped' = FALSE
                   /\ created_data' = d
                   /\ last' = [c1 EXCEPT !.ret = a.ret]
                   /\ UNCHANGED pc
              ELSE IF AssertFails(a.ret)
              THEN /\ timer' = t2
                   /\ kfd' = r.k
                   /\ registered' = a.reg
                   /\ errno' = e1
                   /\ pc' = "aborted"
                   /\ last' = [c1 EXCEPT !.ret = NO_RETURN]
                   /\ UNCHANGED <<life, started, stopped, created_data>>
              ELSE
              \E cl \in close(r.k, r.fd) :
                   /\ timer' = shred(t2)
                   /\ kfd' = cl.k
                   /\ registered' = a.reg
                   /\ errno' = restore_errno(e1, SetErrno(e1, cl.errno))
                   /\ life' = "wiped"
                   /\ last' = [c1 EXCEPT !.ret = a.ret,
                                         !.closed = <<r.fd>>,
                                         !.closeRet = cl.ret]
                   /\ UNCHANGED <<pc, started, stopped, created_data>>

(***************************************************************************)
(* event_timer_start, event_timer_stop                                     *)
(***************************************************************************)
\* struct timespec expiration_time
expiration_time(msec) ==
    [tv_sec |-> CDiv(msec, 1000), tv_nsec |-> CMod(msec, 1000) * 1000]

settime_status_ignored(ret) == EM_SUCCESS

\* if_negative (timerfd_settime(...)) return EM_ERROR_TIMERFD_SETTIME;
settime_status(ret) ==
    IF ret < 0 THEN EM_ERROR_TIMERFD_SETTIME ELSE EM_SUCCESS

\* a timer that is running keeps its setting
arm_unless_armed(k, fd, sec, nsec) ==
    IF Armed(k, fd)
    THEN [ret |-> 0, k |-> k, errno |-> "keep"]
    ELSE timerfd_settime(k, fd, sec, nsec)

\* new_value.it_interval = new_value.it_value = (sec, nsec);
\* timerfd_settime(TIMER_FD(timer), 0, &new_value, NULL)
arm(k, fd, sec, nsec) == timerfd_settime(k, fd, sec, nsec)

\* both functions: set the timer of TIMER_FD(timer) to (sec, nsec)
SetTime(c, tp, sec, nsec, isStart) ==
    /\ Callable
    /\ ApiFrame
    /\ IF tp = NULL
       THEN /\ last' = [c EXCEPT !.ret = EM_ERROR_TIMER_NULL]
            /\ UNCHANGED <<timer, kfd, registered, errno, pc, life, started,
                           stopped, created_data>>
       ELSE
       \* the storage was passed to create before (no uninitialised read)
       /\ life # "uninit"
       /\ LET r == arm(kfd, timer.fd, sec, nsec)
              ret == settime_status(r.ret)
          IN
          /\ kfd' = r.k
          /\ errno' = SetErrno(errno, r.errno)
          /\ last' = [c EXCEPT !.ret = ret,
                               !.prev = IF IsOpen(kfd, timer.fd)
                                        THEN <<kfd[timer.fd].sec,
                                               kfd[timer.fd].nsec>>
                                        ELSE <<>>]
          /\ started' = IF ret = EM_SUCCESS /\ isStart THEN TRUE ELSE started
          /\ stopped' = IF ret = EM_SUCCESS THEN ~isStart ELSE stopped
          /\ UNCHANGED <<timer, registered, pc, life, created_data>>

event_timer_start(tp, msec) ==
    LET ts == expiration_time(msec)
    IN SetTime(Call("start", <<tp, msec>>), tp, ts.tv_sec, ts.tv_nsec, TRUE)

event_timer_stop(tp) ==
    SetTime(Call("stop", <<tp>>), tp, 0, 0, FALSE)

(***************************************************************************)
(* event_timer_destroy                                                     *)
(***************************************************************************)
\* the status of a failed close replaces the status of the failed delete
delete_failure_status_from_close(ret, close_ret) ==
    IF close_ret < 0 THEN EM_ERROR_CLOSE ELSE ret

\* close(TIMER_FD(timer)); errno = saved_errno; return ret;
delete_failure_status(ret, close_ret) == ret

\* the result of close is not looked at
destroy_after_close_unchecked(t, close_ret) ==
    [ret |-> EM_SUCCESS, timer |-> shred(t), life |-> "destroyed"]

\* if_negative (close(TIMER_FD(timer))) return EM_ERROR_CLOSE;
\* shred(timer); return EM_SUCCESS;
destroy_after_close(t, close_ret) ==
    IF close_ret < 0
    THEN [ret |-> EM_ERROR_CLOSE, timer |-> t,
          life |-> IF life = "created" THEN "failed" ELSE life]
    ELSE [ret |-> EM_SUCCESS, timer |-> shred(t), life |-> "destroyed"]

event_timer_destroy(tp) ==
    /\ Callable
    /\ ApiFrame
    /\ UNCHANGED <<started, stopped, created_data>>
    /\ LET c == Call("destroy", <<tp>>)
       IN
       IF tp = NULL
       THEN /\ last' = [c EXCEPT !.ret = EM_ERROR_TIMER_NULL]
            /\ UNCHANGED <<timer, kfd, registered, errno, pc, life>>
       ELSE
       /\ life # "uninit"
       /\ \E d \in event_machine_delete(timer.event_machine, timer.fd,
                                        registered) :
            LET e1 == SetErrno(errno, d.errno)
                c1 == [c EXCEPT !.em = d.ret, !.emErrno = e1]
            IN
            /\ registered' = d.reg
            /\ IF if_em_failure(d.ret)
               THEN IF AssertFails(d.ret)
                    THEN /\ pc' = "aborted"
                         /\ errno' = e1
                         /\ last' = [c1 EXCEPT !.ret = NO_RETURN]
                         /\ UNCHANGED <<timer, kfd, life>>
                    ELSE
                    \E cl \in close(kfd, timer.fd) :
                         /\ kfd' = cl.k
                         /\ errno' = restore_errno(e1,
                                                  SetErrno(e1, cl.errno))
                         /\ life' = IF life = "created" THEN "failed"
                                    ELSE life
                         /\ last' = [c1 EXCEPT
                                        !.ret = delete_failure_status(d.ret,
                                                                      cl.ret),
                                        !.closed = <<timer.fd>>,
                                               !.closeRet = cl.ret]
                         /\ UNCHANGED <<timer, pc>>
               ELSE
               \E cl \in close(kfd, timer.fd) :
                    /\ kfd' = cl.k
                    /\ errno' = SetErrno(e1, cl.errno)
                    /\ UNCHANGED pc
                    /\ LET res == destroy_after_close(timer, cl.ret)
                       IN
                       /\ last' = [c1 EXCEPT !.ret = res.ret,
                                             !.closed = <<timer.fd>>,
                                             !.closeRet = cl.ret]
                       /\ life' = res.life
                       /\ timer' = res.timer

(***************************************************************************)
(* Kernel time and the reactor's dispatch: internal_timeout_handler        *)
(***************************************************************************)
\* an armed timer expires once more
Tick ==
    /\ pc \in {"app", "drain", "incb"}
    /\ \E f \in Fds :
         /\ Armed(kfd, f)
         /\ kfd[f].ticks < MaxTicks
         /\ kfd' = [kfd EXCEPT ![f].ticks = @ + 1]
    /\ last' = NoCall
    /\ UNCHANGED <<timer, registered, errno, ndebug, pc, number_of_timeouts,
                   life, started, stopped, created_data, readn, invoked>>

\* what a read delivered: all 8 bytes, the would-block failure, or anything
\* else (another failure, or fewer than 8 bytes)
READ_FULL == "READ_FULL"
READ_EAGAIN == "READ_EAGAIN"
READ_OTHER == "READ_OTHER"

read_class(r) ==
    IF r.readed = 8 THEN READ_FULL
    ELSE IF r.readed = -1 /\ r.errno = "EAGAIN" THEN READ_EAGAIN
    ELSE READ_OTHER

\* the would-block test is missing
read_outcome_no_eagain(readed, e) ==
    IF readed # 8 /\ ~ndebug THEN "abort" ELSE "drain"

\* if (readed != sizeof(uint64_t) && errno == EAGAIN) return;
\* assert(readed == sizeof(uint64_t));
read_outcome(readed, e) ==
    IF readed # 8 /\ e = "EAGAIN" THEN "return"
    ELSE IF readed # 8 /\ ~ndebug THEN "abort"
    ELSE "drain"

\* handler(em, events, fd, data) with data = the timer: the entry of the
\* handler up to the drain loop, r being what read(fd, ...) delivers
handler_entry(fd, r) ==
    LET e1 == SetErrno(errno, r.errno)
        out == read_outcome(r.readed, e1)
    IN
    /\ kfd' = r.k
    /\ errno' = e1
    /\ invoked' = 0
    /\ last' = [NoCall EXCEPT !.op = "dispatch", !.ret = read_class(r)]
    /\ IF out = "return"
       THEN /\ readn' = 0
            /\ UNCHANGED <<pc, number_of_timeouts>>
       ELSE IF out = "abort"
       THEN /\ pc' = "aborted"
            /\ readn' = 0
            /\ UNCHANGED number_of_timeouts
       ELSE \E n \in (IF r.readed = 8 THEN {r.n} ELSE 0 .. MaxTicks) :
            \* unless read filled it number_of_timeouts is uninitialised
            /\ pc' = "drain"
            /\ number_of_timeouts' = n
            /\ readn' = r.n
    /\ UNCHANGED <<timer, registered, ndebug, life, started, stopped,
                   created_data>>

\* The reactor invokes the handler of a registered descriptor whose fd it
\* saw readable; the read behaves as a non-blocking timerfd does.
Dispatch ==
    /\ pc = "app"
    /\ \E fd \in registered :
         /\ IsOpen(kfd, fd)
         /\ handler_entry(fd, read(kfd, fd))

\* reads outside the contract of a timerfd: fewer than 8 bytes (errno is not
\* written), or a failure other than would-block
faulty_read(k, fd) ==
    {[readed |-> b, n |-> 0, k |-> k, errno |-> "keep"] : b \in {0, 4}}
    \cup {[readed |-> -1, n |-> 0, k |-> k, errno |-> "EIO"]}

\* the handler runs and its read is a faulty one
DispatchFault ==
    /\ pc = "app"
    /\ \E fd \in registered :
         /\ IsOpen(kfd, fd)
         /\ \E r \in faulty_read(kfd, fd) : handler_entry(fd, r)

\* One iteration of the drain loop up to the call of the user callback:
\* TIMER_CALLBACK(timer)(timer, TIMER_DATA(timer)).  Calling a null pointer
\* is undefined: the process traps, or the call does nothing.
DrainInvoke ==
    /\ pc = "drain"
    /\ number_of_timeouts > 0
    /\ IF timer.callback = NULL
       THEN /\ \/ /\ pc' = "crashed"
                  /\ UNCHANGED number_of_timeouts
               \/ /\ pc' = "drain"
                  /\ number_of_timeouts' = number_of_timeouts - 1
            /\ UNCHANGED invoked
       ELSE /\ pc' = "incb"
            /\ invoked' = invoked + 1
            /\ UNCHANGED number_of_timeouts
    /\ last' = NoCall
    /\ UNCHANGED <<timer, kfd, registered, errno, ndebug, life, started,
                   stopped, created_data, readn>>

\* the user callback returns: number_of_timeouts--
CallbackReturn ==
    /\ pc = "incb"
    /\ pc' = "drain"
    /\ number_of_timeouts' = number_of_timeouts - 1
    /\ last' = NoCall
    /\ UNCHANGED <<timer, kfd, registered, errno, ndebug, life, started,
                   stopped, created_data, readn, invoked>>

\* the loop ends and the handler returns to the reactor
HandlerReturn ==
    /\ pc = "drain"
    /\ number_of_timeouts = 0
    /\ pc' = "app"
    /\ readn' = 0
    /\ invoked' = 0
    /\ last' = NoCall
    /\ UNCHANGED <<timer, kfd, registered, errno, ndebug, number_of_timeouts,
                   life, started, stopped, created_data>>

Create == \E em \in Reactors, tp \in TimerPtrs, cb \in Callbacks,
             d \in UserData : event_timer_create(em, tp, cb, d)
Start == \E tp \in TimerPtrs, msec \in Msecs : event_timer_start(tp, msec)
Stop == \E tp \in TimerPtrs : event_timer_stop(tp)
Destroy == \E tp \in TimerPtrs : event_timer_destroy(tp)

Next ==
    \/ Create
    \/ Start
    \/ Stop
    \/ Destroy
    \/ Tick
    \/ Dispatch
    \/ DrainInvoke
    \/ CallbackReturn
    \/ HandlerReturn

Spec == Init /\ [][Next]_vars

\* the program with a read that may break the timerfd contract
NextFault ==
    \/ Next
    \/ DispatchFault

SpecFault == Init /\ [][NextFault]_vars

TypeOK ==
    /\ pc \in {"app", "drain", "incb", "aborted", "crashed"}
    /\ registered \subseteq Fds
    /\ number_of_timeouts \in 0 .. MaxTicks
    /\ readn \in 0 .. MaxTicks
    /\ invoked <= readn

(***************************************************************************)
(* Properties.                                                             *)
(***************************************************************************)
\* every field zero and the handle -1
WipedTimer ==
    [event_machine |-> NULL, data |-> NULL, callback |-> NULL,
     fd |-> INVALID_FD, events |-> 0, ed_data |-> NULL, handler |-> NULL]

\* the step invokes the user callback
InvokesCallback == pc = "drain" /\ pc' = "incb"

\* C1: when event_machine_add fails inside create, on return the descriptor
\* create allocated is closed, the call has registered nothing with the
\* reactor, the storage is wiped (every field zero, fd = -1) and the status
\* is the one add returned.
C1_CreateAddFailureRollsBack ==
    [][(last'.op = "create" /\ last'.em \notin {NOT_CALLED, EM_SUCCESS}) =>
        /\ Len(last'.closed) = 1
        /\ last'.closed[1] \in Fds \ OpenFds(kfd)
        /\ OpenFds(kfd') = OpenFds(kfd)
        /\ registered' = registered
        /\ timer' = WipedTimer
        /\ last'.ret = last'.em]_vars

C1_Witness ==
    /\ last.op = "create"
    /\ last.em = EM_ERROR_REGISTER
    /\ last.ret = EM_ERROR_REGISTER
    /\ timer.fd = INVALID_FD

\* C2: a dispatch that read the count n ends (the handler returns to the
\* reactor, or the process dies in the drain loop) only after n callback
\* invocations.
C2_CallbackOncePerElapsedInterval ==
    [][(pc = "drain" /\ pc' \in {"app", "crashed"}) => invoked = readn]_vars

\* C3: a destroy of a created timer that returns EM_SUCCESS has removed the
\* descriptor from the reactor, closed the open handle with one call of
\* close, and left every field zero and the handle -1.
C3_DestroySuccessWipes ==
    [][(last'.op = "destroy" /\ last'.ret = EM_SUCCESS /\ life = "created") =>
        /\ IsOpen(kfd, timer.fd)
        /\ ~IsOpen(kfd', timer.fd)
        /\ last'.closed = <<timer.fd>>
        /\ timer.fd \notin registered'
        /\ timer' = WipedTimer]_vars

C3_Witness ==
    /\ last.op = "destroy"
    /\ last.ret = EM_SUCCESS
    /\ life = "destroyed"
    /\ registered = {}

\* C4: create with a null reactor, timer or callback returns EM_ERROR_NULL,
\* EM_ERROR_TIMER_NULL or EM_ERROR_CALLBACK_NULL (the first null argument
\* in that order decides) and allocates no descriptor, registers nothing
\* and writes no field of the storage.
C4_CreateNullArguments ==
    [][(/\ last'.op = "create"
        /\ \E i \in 1..3 : last'.args[i] = NULL) =>
        /\ last'.ret = (IF last'.args[1] = NULL THEN EM_ERROR_NULL
                        ELSE IF last'.args[2] = NULL THEN EM_ERROR_TIMER_NULL
                        ELSE EM_ERROR_CALLBACK_NULL)
        /\ timer' = timer
        /\ kfd' = kfd
        /\ registered' = registered]_vars

C4_Witness ==
    /\ last.op = "create"
    /\ last.args[1] = NULL
    /\ last.args[3] = NULL
    /\ last.ret = EM_ERROR_NULL

\* C5: the user callback is not invoked between a successful create and
\* the first successful start on the timer.
C5_NoCallbackBeforeStart ==
    [][InvokesCallback => (life = "created" => started)]_vars

\* C6: a successful start with msec >= 0 arms the timer with a period of
\* exactly msec milliseconds: tv_sec * 10^9 + tv_nsec = msec * 10^6.
C6_StartArmsExactlyMsec ==
    (last.op = "start" /\ last.ret = EM_SUCCESS /\ last.args[2] >= 0) =>
        PeriodNs(kfd, timer.fd) = last.args[2] * 1000000

\* C7: after a successful stop the user callback is not invoked until a
\* later start succeeds, also when stop was called from the callback while
\* the handler drains coalesced expirations.
C7_NoCallbackAfterStop ==
    [][InvokesCallback => ~stopped]_vars

\* C8: destroy on a timer that a previous destroy wiped returns an error
\* status: no assertion failure, no call of close, nothing released.
C8_DestroyTwiceReportsError ==
    [][(/\ last'.op = "destroy"
        /\ last'.args[1] # NULL
        /\ life = "destroyed"
        /\ timer = WipedTimer) =>
        /\ last'.ret \notin {NO_RETURN, EM_SUCCESS}
        /\ pc' = pc
        /\ last'.closed = <<>>
        /\ kfd' = kfd]_vars

\* C9 as stated: start or stop on a wiped timer returns EM_ERROR_TIMER_NULL
\* or EM_ERROR_BADFD and leaves the timer and the reactor unchanged.
C9_Original ==
    [][(/\ last'.op \in {"start", "stop"}
        /\ last'.args[1] # NULL
        /\ life = "destroyed"
        /\ timer = WipedTimer) =>
        /\ last'.ret \in {EM_ERROR_TIMER_NULL, EM_ERROR_BADFD}
        /\ timer' = timer
        /\ registered' = registered]_vars

\* C9 amended: start or stop on a wiped timer returns
\* EM_ERROR_TIMERFD_SETTIME (never success) and leaves the timer, the
\* reactor and the kernel descriptors unchanged.
C9_StartStopOnWipedTimer ==
    [][(/\ last'.op \in {"start", "stop"}
        /\ last'.args[1] # NULL
        /\ life = "destroyed"
        /\ timer = WipedTimer) =>
        /\ last'.ret = EM_ERROR_TIMERFD_SETTIME
        /\ timer' = timer
        /\ registered' = registered
        /\ kfd' = kfd]_vars

C9_Witness ==
    /\ last.op = "stop"
    /\ last.ret = EM_ERROR_TIMERFD_SETTIME
    /\ life = "destroyed"
    /\ timer = WipedTimer

\* C10: when event_machine_delete fails inside the destroy of a created
\* timer, destroy closes the open handle with one call of close, returns
\* the status delete returned whatever close returned, and leaves every
\* field of the timer unchanged.
C10_DestroyDeleteFailure ==
    [][(/\ last'.op = "destroy"
        /\ last'.em \notin {NOT_CALLED, EM_SUCCESS}
        /\ life = "created") =>
        /\ last'.closed = <<timer.fd>>
        /\ IsOpen(kfd, timer.fd)
        /\ ~IsOpen(kfd', timer.fd)
        /\ last'.ret = last'.em
        /\ timer' = timer]_vars

C10_Witness ==
    /\ last.op = "destroy"
    /\ last.em = EM_ERROR_UNREGISTER
    /\ last.ret = EM_ERROR_UNREGISTER
    /\ last.closed = <<timer.fd>>
    /\ last.closeRet = -1
    /\ errno = "EPERM"
    /\ timer.fd \in registered
    /\ timer.callback # NULL

\* C11: when event_machine_delete succeeds and the close of the handle
\* fails inside destroy, destroy returns EM_ERROR_CLOSE and leaves every
\* field of the timer, the handle included, as it was before the call; the
\* descriptor is no longer registered.
C11_DestroyCloseFailure ==
    [][(/\ last'.op = "destroy"
        /\ last'.em = EM_SUCCESS
        /\ last'.closeRet < 0) =>
        /\ last'.ret = EM_ERROR_CLOSE
        /\ last'.closed = <<timer.fd>>
        /\ timer' = timer
        /\ timer'.fd # INVALID_FD
        /\ timer.fd \in registered
        /\ timer.fd \notin registered']_vars

C11_Witness ==
    /\ last.op = "destroy"
    /\ last.em = EM_SUCCESS
    /\ last.ret = EM_ERROR_CLOSE
    /\ last.closeRet = -1
    /\ errno = "EIO"
    /\ timer.fd \in Fds
    /\ timer.fd \notin registered
    /\ timer.callback # NULL

\* C12: when timerfd_create fails inside create (non-null arguments),
\* create returns EM_ERROR_BADFD, registers nothing and leaves the caller's
\* storage as it was before the call.
C12_CreateAllocationFailureAtomic ==
    [][(last'.op = "create" /\ last'.ret = EM_ERROR_BADFD) =>
        /\ registered' = registered
        /\ kfd' = kfd
        /\ timer' = timer]_vars

\* C13: a start that succeeds on a timer that is already running re-arms
\* it with the interval of this last call (the expiration time the code
\* computes from its msec) and drops the expirations pending under the old
\* setting; the registration, the callback and the user data are unchanged.
C13_RestartUsesLastInterval ==
    [][(/\ last'.op = "start"
        /\ last'.ret = EM_SUCCESS
        /\ Armed(kfd, timer.fd)) =>
        /\ kfd'[timer.fd].sec = expiration_time(last'.args[2]).tv_sec
        /\ kfd'[timer.fd].nsec = expiration_time(last'.args[2]).tv_nsec
        /\ kfd'[timer.fd].ticks = 0
        /\ kfd'[timer.fd].open
        /\ timer' = timer
        /\ registered' = registered]_vars

C13_Witness ==
    /\ last.op = "start"
    /\ last.ret = EM_SUCCESS
    /\ last.args[2] = 1000
    /\ last.prev = <<0, 50000>>
    /\ timer.fd \in registered
    /\ kfd[timer.fd].sec = 1
    /\ kfd[timer.fd].nsec = 0
    /\ timer.callback = "cb1"

\* C14: in every reachable state of a timer that create has initialised,
\* the handle field is a non-sentinel value naming an open kernel timer
\* exactly when the timer is in the created state, and it is never a
\* non-sentinel value naming a closed resource.
C14_HandleValidIffCreated ==
    life # "uninit" =>
        /\ (timer.fd # INVALID_FD /\ IsOpen(kfd, timer.fd)) <=>
               (life = "created")
        /\ timer.fd # INVALID_FD => IsOpen(kfd, timer.fd)

\* the handler calls through the callback field in this step
CallsThroughCallback ==
    /\ pc = "drain"
    /\ \/ pc' \in {"incb", "crashed"}
       \/ number_of_timeouts' < number_of_timeouts

\* C15: whenever the dispatch handler invokes the user callback, in every
\* iteration of the drain loop, the callback field is non-null and the timer
\* is in the created state.
C15_CallbackValidAtEveryIteration ==
    [][CallsThroughCallback =>
        /\ timer.callback # NULL
        /\ life = "created"]_vars

\* C16: every close made by create or destroy is given a handle that is open
\* at that moment, so no handle is closed twice and close is never called on
\* a closed handle or on -1: create closes the handle it has just allocated,
\* destroy closes a handle that was open when it was called.
C16_CloseOnlyOpenHandles ==
    [][\A i \in 1 .. Len(last'.closed) :
           /\ last'.closed[i] # INVALID_FD
           /\ last'.op = "create" => last'.closed[i] \in Fds \ OpenFds(kfd)
           /\ last'.op = "destroy" => IsOpen(kfd, last'.closed[i])]_vars

\* C17: in every reachable state every descriptor in the reactor's table
\* refers to an open kernel handle.
C17_RegisteredHandlesOpen ==
    \A fd \in registered : IsOpen(kfd, fd)

\* C18: when the handler's read reports would-block (EAGAIN), the handler
\* returns: no callback is invoked, the process does not abort, and the
\* timer, the kernel timer and the reactor's table are unchanged, so the
\* reactor can dispatch the same descriptor again.
C18_WouldBlockReturnsQuietly ==
    [][(last'.op = "dispatch" /\ last'.ret = READ_EAGAIN) =>
        /\ pc' = "app"
        /\ invoked' = 0
        /\ number_of_timeouts' = number_of_timeouts
        /\ timer' = timer
        /\ kfd' = kfd
        /\ registered' = registered
        /\ life' = life
        /\ \E fd \in registered' : IsOpen(kfd', fd)]_vars

C18_Witness ==
    /\ last.op = "dispatch"
    /\ last.ret = READ_EAGAIN
    /\ errno = "EAGAIN"
    /\ pc = "app"
    /\ timer.fd \in registered
    /\ Armed(kfd, timer.fd)
    /\ kfd[timer.fd].ticks = 0

\* C19: in a build with assertions, every read of the handler that is
\* neither a full 8-byte read nor a would-block failure of that read ends in
\* the assertion failure, whatever errno held before the read.
C19_OtherReadsAbort ==
    [][(/\ last'.op = "dispatch"
        /\ last'.ret = READ_OTHER
        /\ ~ndebug) =>
        pc' = "aborted"]_vars

\* C20: when event_machine_add fails in create or event_machine_delete
\* fails in destroy and the function returns, errno on return is the errno
\* the failing reactor call left, whatever the cleanup close in between did.
C20_ErrnoOfReactorFailureRestored ==
    [][(/\ last'.op \in {"create", "destroy"}
        /\ last'.em \notin {NOT_CALLED, EM_SUCCESS}
        /\ last'.ret # NO_RETURN) =>
        /\ Len(last'.closed) = 1
        /\ errno' = last'.emErrno]_vars

C20_Witness ==
    /\ last.op = "destroy"
    /\ last.em = EM_ERROR_UNREGISTER
    /\ last.ret = EM_ERROR_UNREGISTER
    /\ last.closed = <<timer.fd>>
    /\ last.closeRet = -1
    /\ last.emErrno = "EPERM"
    /\ errno = "EPERM"

=============================================================================
